---- MODULE Spec2Model ----
\* A model of the Ledger of lolotrgeek/Chain: a replicated key-value store over
\* an append-only block log (src/main.js, and the second Ledger source
\* src/unnamed/part_000, which differs in its generic and requested_block
\* listeners).  The Chain (./chain) and Node (./node) classes the Ledger calls
\* are modelled from their contract in spec.md sections 3 and 6.
EXTENDS Integers, Sequences, FiniteSets, Bags, TLC

VARIABLES impl, ledger, peers, calls, puts, appended, ev, nodes, net, linked, asked

vars == <<impl, ledger, peers, calls, puts, appended, ev, nodes, net, linked, asked>>

\* ---------------------------------------------------------------- bounds
MaxPuts == 2
MaxRemote == 2
MaxCalls == 2
MaxErrors == 1
MaxReports == 3
MaxNetPuts == 2
MaxReceived == 1

\* ------------------------------------------------------- program constants
retries == 3
BackoffMs == 500

\* ------------------------------------------------------------ value space
Keys == {"x", "y"}
Values == {1, 2}
Self == "n0"
PeerIds == {"p1", "p2", "p3"}
Names == {Self, "p1"}
Broadcast == "*"

\* Return values of the accessors: a tagged record stands for the JS value.
Undefined == [kind |-> "undefined"]
NotFound == [kind |-> "unable to find."]
DataRet(d) == [kind |-> "data", val |-> d]
ListRet(s) == [kind |-> "list", val |-> s]
BlockRet(b) == [kind |-> "block", val |-> b]

\* A block: block_id, data {key, value} (has_data = FALSE stands for a block
\* whose data field is undefined), and its ordering metadata.
Block(id, k, v, t) == [block_id |-> id, has_data |-> TRUE, data |-> [key |-> k, value |-> v], time |-> t]
NoDataBlock(id, t) == [block_id |-> id, has_data |-> FALSE, data |-> [key |-> "", value |-> 0], time |-> t]

\* Blocks created on other nodes, which peers may deliver: block 100+i was
\* created at time i, for key "x" (i odd) or "y" (i even).
RemoteBlock(i) == Block(100 + i, IF i % 2 = 1 THEN "x" ELSE "y", 6 + i, i)
\* A payload of the block channel that has no data field.
Malformed == NoDataBlock(100, 2)
RemoteBlocks == {RemoteBlock(i) : i \in 1..MaxRemote}

Msg(ch, to, body) == [ch |-> ch, to |-> to, body |-> body]

\* The effect of one handler or method call: the ledger after it, the messages
\* it sent, the value it returned, whether an exception left it, and the delay
\* of the timer it scheduled (0: none).
Eff(l, out, ret, threw, timer) == [l |-> l, out |-> out, ret |-> ret, threw |-> threw, timer |-> timer]

\* ------------------------------------------------------------------ Chain
Ids(blocks) == {blocks[i].block_id : i \in 1..Len(blocks)}

ChainLength(blocks) == Len(blocks)

ChainPut(blocks, data, id, t) == Append(blocks, Block(id, data.key, data.value, t))

ChainAdd(blocks, block) ==
    IF block.block_id \in Ids(blocks) THEN blocks ELSE Append(blocks, block)

ChainMapBlocks(blocks) == [i \in 1..Len(blocks) |-> blocks[i].block_id]

ChainCompare(blocks, block_map) ==
    SelectSeq(block_map, LAMBDA id : id \notin Ids(blocks))

Before(a, b) == a.time < b.time \/ (a.time = b.time /\ a.block_id < b.block_id)

RECURSIVE InsertSorted(_, _)
InsertSorted(sorted, b) ==
    IF sorted = <<>> THEN <<b>>
    ELSE IF Before(b, Head(sorted)) THEN <<b>> \o sorted
    ELSE <<Head(sorted)>> \o InsertSorted(Tail(sorted), b)

RECURSIVE ChainSortBlocks(_)
ChainSortBlocks(blocks) ==
    IF blocks = <<>> THEN <<>>
    ELSE InsertSorted(ChainSortBlocks(SubSeq(blocks, 1, Len(blocks) - 1)), blocks[Len(blocks)])

RECURSIVE ChainMerge(_, _)
ChainMerge(blocks, chain) ==
    IF chain = <<>> THEN blocks
    ELSE ChainMerge(ChainAdd(blocks, Head(chain)), Tail(chain))

\* ----------------------------------------------------------------- Ledger
NewLedger(name) ==
    [name |-> name, chain |-> <<>>, chain_lengths |-> <<>>, missing_blocks |-> <<>>,
     received_blocks |-> <<>>, errors |-> <<>>, tries |-> 0, target_length |-> -1]

\* blocks.slice().reverse().find(block => block.data.key === key): the index
\* of the match, 0 when there is none, -1 when the predicate throws on a block
\* without data before a match is reached.
RECURSIVE FindLastKey(_, _, _)
FindLastKey(blocks, key, i) ==
    IF i = 0 THEN 0
    ELSE IF ~blocks[i].has_data THEN -1
    ELSE IF blocks[i].data.key = key THEN i
    ELSE FindLastKey(blocks, key, i - 1)

\* blocks.slice().reverse().find(block => block.block_id === block_id)
RECURSIVE FindLastId(_, _, _)
FindLastId(blocks, id, i) ==
    IF i = 0 THEN 0
    ELSE IF blocks[i].block_id = id THEN i
    ELSE FindLastId(blocks, id, i - 1)

\* put that writes the block over the newest one instead of appending it.
put_overwrite(l, key, value, id, t) ==
    LET kept == IF l.chain = <<>> THEN <<>> ELSE SubSeq(l.chain, 1, Len(l.chain) - 1)
        blocks == ChainPut(kept, [key |-> key, value |-> value], id, t)
        block == blocks[Len(blocks)]
    IN  Eff([l EXCEPT !.chain = blocks], <<Msg("block", Broadcast, block)>>, BlockRet(block), FALSE, 0)

put(l, key, value, id, t) ==
    LET blocks == ChainPut(l.chain, [key |-> key, value |-> value], id, t)
        block == blocks[Len(blocks)]
    IN  Eff([l EXCEPT !.chain = blocks], <<Msg("block", Broadcast, block)>>, BlockRet(block), FALSE, 0)

\* get with the scan running oldest-first (find without reverse).
RECURSIVE FindFirstKey(_, _, _)
FindFirstKey(blocks, key, i) ==
    IF i > Len(blocks) THEN 0
    ELSE IF ~blocks[i].has_data THEN -1
    ELSE IF blocks[i].data.key = key THEN i
    ELSE FindFirstKey(blocks, key, i + 1)

get_oldest_first(l, key) ==
    LET i == FindFirstKey(l.chain, key, 1)
    IN  IF i = -1
        THEN Eff([l EXCEPT !.errors = Append(@, "TypeError")], <<>>, Undefined, FALSE, 0)
        ELSE IF i > 0
        THEN Eff([l EXCEPT !.tries = 0], <<>>, DataRet(l.chain[i].data), FALSE, 0)
        ELSE IF l.tries < retries
        THEN Eff([l EXCEPT !.tries = @ + 1], <<Msg("request", Broadcast, [key |-> key])>>,
                 Undefined, FALSE, (l.tries + 1) * BackoffMs)
        ELSE Eff(l, <<>>, NotFound, FALSE, 0)

get(l, key) ==
    LET i == FindLastKey(l.chain, key, Len(l.chain))
    IN  IF i = -1
        THEN Eff([l EXCEPT !.errors = Append(@, "TypeError")], <<>>, Undefined, FALSE, 0)
        ELSE IF i > 0
        THEN Eff([l EXCEPT !.tries = 0], <<>>, DataRet(l.chain[i].data), FALSE, 0)
        ELSE IF l.tries < retries
        THEN Eff([l EXCEPT !.tries = @ + 1], <<Msg("request", Broadcast, [key |-> key])>>,
                 Undefined, FALSE, (l.tries + 1) * BackoffMs)
        ELSE Eff(l, <<>>, NotFound, FALSE, 0)

AllHaveData(blocks) == \A i \in 1..Len(blocks) : blocks[i].has_data

Datas(blocks) == [i \in 1..Len(blocks) |-> blocks[i].data]

\* get_history over the reversed chain: the entries come newest first.
get_history_newest_first(l, key) ==
    IF ~AllHaveData(l.chain)
    THEN Eff([l EXCEPT !.errors = Append(@, "TypeError")], <<>>, Undefined, FALSE, 0)
    ELSE Eff(l, <<>>,
             ListRet(Datas(SelectSeq([i \in 1..Len(l.chain) |-> l.chain[Len(l.chain) + 1 - i]],
                                     LAMBDA b : b.data.key = key))), FALSE, 0)

\* get_history without its try/catch: the TypeError leaves the method.
get_history_uncaught(l, key) ==
    IF ~AllHaveData(l.chain)
    THEN Eff(l, <<>>, Undefined, TRUE, 0)
    ELSE Eff(l, <<>>,
             ListRet(Datas(SelectSeq(l.chain, LAMBDA b : b.data.key = key))), FALSE, 0)

get_history(l, key) ==
    IF ~AllHaveData(l.chain)
    THEN Eff([l EXCEPT !.errors = Append(@, "TypeError")], <<>>, Undefined, FALSE, 0)
    ELSE Eff(l, <<>>,
             ListRet(Datas(SelectSeq(l.chain, LAMBDA b : b.data.key = key))), FALSE, 0)

Reverse(s) == [i \in 1..Len(s) |-> s[Len(s) + 1 - i]]

\* entries.filter with the `latest` Set: keep an entry when its key was not
\* seen earlier in the (reversed) sequence.
RECURSIVE FirstOccurrences(_, _)
FirstOccurrences(entries, seen) ==
    IF entries = <<>> THEN <<>>
    ELSE IF Head(entries).key \in seen THEN FirstOccurrences(Tail(entries), seen)
    ELSE <<Head(entries)>> \o FirstOccurrences(Tail(entries), seen \cup {Head(entries).key})

\* get_all without the reverse(): the oldest entry of each key is kept.
get_all_oldest(l) ==
    IF ~AllHaveData(l.chain)
    THEN Eff([l EXCEPT !.errors = Append(@, "TypeError")], <<>>, Undefined, FALSE, 0)
    ELSE Eff(l, <<>>, ListRet(FirstOccurrences(Datas(l.chain), {})), FALSE, 0)

get_all(l) ==
    IF ~AllHaveData(l.chain)
    THEN Eff([l EXCEPT !.errors = Append(@, "TypeError")], <<>>, Undefined, FALSE, 0)
    ELSE Eff(l, <<>>, ListRet(FirstOccurrences(Reverse(Datas(l.chain)), {})), FALSE, 0)

\* --------------------------------------------------------------- listeners
\* `this.core` in the generic listener of main.js (line 35): the constructor
\* assigns name, chain, node, chain_lengths, missing_blocks, received_blocks,
\* errors, retries and tries, and never `core` (the transport is this.node.core),
\* so the expression this.core.getPeers() throws a TypeError.
CoreDefined == FALSE

IsObject(data) == "primitive" \notin DOMAIN data

HasField(data, f) == f \in DOMAIN data

\* this.node.core.on("connect", ...)
connectHandler(l, id) ==
    Eff(l, <<Msg("generic", id, [length |-> Len(l.chain)])>>, Undefined, FALSE, 0)

\* requestMissingBlocks without the compare: every id of the map is requested.
requestMissingBlocks_all(l, block_map) ==
    Eff([l EXCEPT !.missing_blocks = block_map],
        [i \in 1..Len(block_map) |-> Msg("request_block", Broadcast, [block_id |-> block_map[i]])],
        Undefined, FALSE, 0)

requestMissingBlocks(l, block_map) ==
    LET missing == ChainCompare(l.chain, block_map)
    IN  Eff([l EXCEPT !.missing_blocks = missing],
            [i \in 1..Len(missing) |-> Msg("request_block", Broadcast, [block_id |-> missing[i]])],
            Undefined, FALSE, 0)

respondBlockMap(l, id) ==
    Eff(l, <<Msg("generic", id, [block_map |-> ChainMapBlocks(l.chain)])>>, Undefined, FALSE, 0)

requestBlockMap(l, id) == <<Msg("generic", id, [request |-> "block_map"])>>

addChainLength(l, id, length) ==
    [l EXCEPT !.chain_lengths = Append(@, [id |-> id, length |-> length])]

selectChain(l, chain) ==
    IF chain.length > ChainLength(l.chain) THEN requestBlockMap(l, chain.id) ELSE <<>>

RECURSIVE SelectAll(_, _)
SelectAll(l, reports) ==
    IF reports = <<>> THEN <<>>
    ELSE selectChain(l, Head(reports)) \o SelectAll(l, Tail(reports))

\* this.node.listen({ from: "" }, ...) of main.js; npeers is
\* Object.keys(getPeers()).length.
genericListener(l, data, id, npeers) ==
    LET first ==
            IF ~IsObject(data) THEN Eff(l, <<>>, Undefined, FALSE, 0)
            ELSE IF HasField(data, "length") /\ data.length # 0
            THEN Eff(addChainLength(l, id, data.length), <<>>, Undefined, FALSE, 0)
            ELSE IF HasField(data, "request") /\ data.request = "block_map"
            THEN respondBlockMap(l, id)
            ELSE IF HasField(data, "block_map") THEN requestMissingBlocks(l, data.block_map)
            ELSE Eff(l, <<>>, Undefined, FALSE, 0)
    IN  IF ~CoreDefined THEN Eff(first.l, first.out, Undefined, TRUE, 0)
        ELSE IF Len(first.l.chain_lengths) >= npeers
        THEN Eff(first.l, first.out \o SelectAll(first.l, first.l.chain_lengths), Undefined, FALSE, 0)
        ELSE first

\* The same listener in src/unnamed/part_000: no report set, no quorum.
genericListenerAlt(l, data, id, npeers) ==
    IF ~IsObject(data) THEN Eff(l, <<>>, Undefined, FALSE, 0)
    ELSE IF HasField(data, "length") /\ data.length > ChainLength(l.chain)
    THEN Eff([l EXCEPT !.target_length = data.length], requestBlockMap(l, id), Undefined, FALSE, 0)
    ELSE IF HasField(data, "request") /\ data.request = "block_map"
    THEN respondBlockMap(l, id)
    ELSE IF HasField(data, "block_map")
    THEN Eff(l, requestMissingBlocks(l, data.block_map).out, Undefined, FALSE, 0)
    ELSE Eff(l, <<>>, Undefined, FALSE, 0)

requestBlockListener(l, block_id, name) ==
    LET i == FindLastId(l.chain, block_id, Len(l.chain))
    IN  IF name # l.name /\ i > 0
        THEN Eff(l, <<Msg("block", Broadcast, l.chain[i])>>, Undefined, FALSE, 0)
        ELSE Eff(l, <<>>, Undefined, FALSE, 0)

\* The requested_block listener with the sort left out on completion.
requestedBlockListener_unsorted(l, block, name) ==
    LET l1 == IF name # l.name
              THEN [l EXCEPT !.received_blocks = Append(@, block),
                             !.chain = ChainAdd(@, block)]
              ELSE l
    IN  IF Len(l1.missing_blocks) = Len(l1.received_blocks)
        THEN Eff([l1 EXCEPT !.missing_blocks = <<>>, !.received_blocks = <<>>],
                 <<>>, Undefined, FALSE, 0)
        ELSE Eff(l1, <<>>, Undefined, FALSE, 0)

requestedBlockListener(l, block, name) ==
    LET l1 == IF name # l.name
              THEN [l EXCEPT !.received_blocks = Append(@, block),
                             !.chain = ChainAdd(@, block)]
              ELSE l
    IN  IF Len(l1.missing_blocks) = Len(l1.received_blocks)
        THEN Eff([l1 EXCEPT !.chain = ChainSortBlocks(@), !.missing_blocks = <<>>,
                            !.received_blocks = <<>>], <<>>, Undefined, FALSE, 0)
        ELSE Eff(l1, <<>>, Undefined, FALSE, 0)

\* The same listener in src/unnamed/part_000; target_length = -1 stands for
\* undefined, and chain.length >= undefined is false.
requestedBlockListenerAlt(l, block, name) ==
    LET l1 == IF name # l.name THEN [l EXCEPT !.chain = ChainAdd(@, block)] ELSE l
    IN  IF l1.target_length # -1 /\ ChainLength(l1.chain) >= l1.target_length
        THEN Eff([l1 EXCEPT !.chain = ChainSortBlocks(@)], <<>>, Undefined, FALSE, 0)
        ELSE Eff(l1, <<>>, Undefined, FALSE, 0)

blockListener(l, block, name) ==
    IF name # l.name
    THEN Eff([l EXCEPT !.chain = ChainAdd(@, block)], <<>>, Undefined, FALSE, 0)
    ELSE Eff(l, <<>>, Undefined, FALSE, 0)

chainListener(l, chain, name) ==
    IF name # l.name
    THEN Eff([l EXCEPT !.chain = ChainMerge(@, chain)], <<>>, Undefined, FALSE, 0)
    ELSE Eff(l, <<>>, Undefined, FALSE, 0)

\* The request listener with the scan running oldest-first.
requestListener_oldest(l, key, name) ==
    LET i == FindFirstKey(l.chain, key, 1)
    IN  IF name = l.name THEN Eff(l, <<>>, Undefined, FALSE, 0)
        ELSE IF i = -1 THEN Eff(l, <<>>, Undefined, TRUE, 0)
        ELSE IF i > 0 THEN Eff(l, <<Msg("block", Broadcast, l.chain[i])>>, Undefined, FALSE, 0)
        ELSE Eff(l, <<>>, Undefined, FALSE, 0)

\* The request listener without the test of the sender's name.
requestListener_noself(l, key, name) ==
    LET i == FindLastKey(l.chain, key, Len(l.chain))
    IN  IF i = -1 THEN Eff(l, <<>>, Undefined, TRUE, 0)
        ELSE IF i > 0 THEN Eff(l, <<Msg("block", Broadcast, l.chain[i])>>, Undefined, FALSE, 0)
        ELSE Eff(l, <<>>, Undefined, FALSE, 0)

\* The predicate block.data.key === key is evaluated outside any try block:
\* on a block without data the listener throws.
requestListener(l, key, name) ==
    LET i == FindLastKey(l.chain, key, Len(l.chain))
    IN  IF name = l.name THEN Eff(l, <<>>, Undefined, FALSE, 0)
        ELSE IF i = -1 THEN Eff(l, <<>>, Undefined, TRUE, 0)
        ELSE IF i > 0 THEN Eff(l, <<Msg("block", Broadcast, l.chain[i])>>, Undefined, FALSE, 0)
        ELSE Eff(l, <<>>, Undefined, FALSE, 0)

\* The listener of the implementation in use.
Generic(l, data, id, npeers) ==
    IF impl = "main" THEN genericListener(l, data, id, npeers)
    ELSE genericListenerAlt(l, data, id, npeers)

RequestedBlock(l, block, name) ==
    IF impl = "main" THEN requestedBlockListener(l, block, name)
    ELSE requestedBlockListenerAlt(l, block, name)

\* ------------------------------------------------------------- operations
\* What the last operation was and did (a history variable).
Ev(op, arg, e, call) ==
    [op |-> op, arg |-> arg, ret |-> e.ret, out |-> e.out, threw |-> e.threw,
     timer |-> e.timer, call |-> call]

\* The ids of the blocks that `new` holds and `old` does not, in chain order.
NewIds(old, new) == SelectSeq(ChainMapBlocks(new), LAMBDA id : id \notin Ids(old))

Range(s) == {s[i] : i \in 1..Len(s)}

\* The block map and the length a peer holding the remote blocks announces.
RemoteMap == [i \in 1..MaxRemote |-> 100 + i]
RemoteChains == {<<RemoteBlock(i), RemoteBlock(j)>> : i, j \in 1..MaxRemote} \ {<<RemoteBlock(i), RemoteBlock(i)>> : i \in 1..MaxRemote}
RemoteChain == [i \in 1..MaxRemote |-> RemoteBlock(i)]
SyncData == {[length |-> MaxRemote], [request |-> "block_map"], [block_map |-> RemoteMap], [primitive |-> TRUE]}

NetNames == {"a", "b"}

Init ==
    /\ impl \in {"main", "part_000"}
    /\ ledger = NewLedger(Self)
    /\ peers = {}
    /\ calls = <<>>
    /\ puts = 0
    /\ appended = <<>>
    /\ ev = Ev("init", [none |-> TRUE], Eff(ledger, <<>>, Undefined, FALSE, 0), 0)
    /\ nodes = [n \in NetNames |-> NewLedger(n)]
    /\ net = EmptyBag
    /\ linked = {}
    /\ asked = {}

\* Apply the effect e of operation op to the ledger.
Apply(op, arg, e, call) ==
    /\ ledger' = e.l
    /\ appended' = appended \o NewIds(ledger.chain, e.l.chain)
    /\ ev' = Ev(op, arg, e, call)
    /\ UNCHANGED <<impl, nodes, net, linked, asked>>

Put(k, v) ==
    /\ puts < MaxPuts
    /\ puts' = puts + 1
    /\ Apply("put", [key |-> k, value |-> v], put(ledger, k, v, puts + 1, puts + 2), 0)
    /\ UNCHANGED <<peers, calls>>

\* A top-level get(key): it starts call chain Len(calls) + 1.
Get(k) ==
    LET e == get(ledger, k)
    IN  /\ Len(calls) < MaxCalls
        /\ Len(e.l.errors) <= MaxErrors
        /\ calls' = Append(calls, [key |-> k, requests |-> Len(e.out),
                                   delays |-> IF e.timer > 0 THEN <<e.timer>> ELSE <<>>,
                                   state |-> IF e.timer > 0 THEN "waiting" ELSE "done",
                                   ret |-> e.ret])
        /\ Apply("get", [key |-> k], e, Len(calls) + 1)
        /\ UNCHANGED <<peers, puts>>

\* The timer of call chain c fires: setTimeout(() => this.get(key), ...).
GetRetry(c) ==
    LET e == get(ledger, calls[c].key)
    IN  /\ calls[c].state = "waiting"
        /\ Len(e.l.errors) <= MaxErrors
        /\ calls' = [calls EXCEPT ![c] =
                        [key |-> @.key, requests |-> @.requests + Len(e.out),
                         delays |-> IF e.timer > 0 THEN Append(@.delays, e.timer) ELSE @.delays,
                         state |-> IF e.timer > 0 THEN "waiting" ELSE "done",
                         ret |-> e.ret]]
        /\ Apply("get_retry", [key |-> calls[c].key], e, c)
        /\ UNCHANGED <<peers, puts>>

GetHistory(k) ==
    LET e == get_history(ledger, k)
    IN  /\ Len(e.l.errors) <= MaxErrors
        /\ Apply("get_history", [key |-> k], e, 0)
        /\ UNCHANGED <<peers, calls, puts>>

GetAll ==
    LET e == get_all(ledger)
    IN  /\ Len(e.l.errors) <= MaxErrors
        /\ Apply("get_all", [none |-> TRUE], e, 0)
        /\ UNCHANGED <<peers, calls, puts>>

\* Blocks a peer may send: the remote blocks, and echoes of blocks held here.
Deliverable == RemoteBlocks \cup Range(ledger.chain)

OnBlock(b, name) ==
    /\ Apply("block", [block |-> b, name |-> name], blockListener(ledger, b, name), 0)
    /\ UNCHANGED <<peers, calls, puts>>

OnRequestedBlock(b, name, cap) ==
    /\ Len(ledger.received_blocks) < cap
    /\ Apply("requested_block", [block |-> b, name |-> name], RequestedBlock(ledger, b, name), 0)
    /\ UNCHANGED <<peers, calls, puts>>

OnChain(chain, name) ==
    /\ Apply("chain", [chain |-> chain, name |-> name], chainListener(ledger, chain, name), 0)
    /\ UNCHANGED <<peers, calls, puts>>

OnRequest(k, name) ==
    /\ Apply("request", [key |-> k, name |-> name], requestListener(ledger, k, name), 0)
    /\ UNCHANGED <<peers, calls, puts>>

OnRequestBlock(id, name) ==
    /\ Apply("request_block", [block_id |-> id, name |-> name], requestBlockListener(ledger, id, name), 0)
    /\ UNCHANGED <<peers, calls, puts>>

Connect(id) ==
    /\ id \notin peers
    /\ peers' = peers \cup {id}
    /\ Apply("connect", [id |-> id], connectHandler(ledger, id), 0)
    /\ UNCHANGED <<calls, puts>>

OnGeneric(data, id, cap) ==
    LET e == Generic(ledger, data, id, Cardinality(peers))
    IN  /\ id \in peers
        /\ Len(e.l.chain_lengths) <= cap
        /\ Apply("generic", [data |-> data, id |-> id], e, 0)
        /\ UNCHANGED <<peers, calls, puts>>

InitMain == Init /\ impl = "main"

\* The read path with its retry timers.
NextRetry ==
    \/ \E k \in Keys, v \in Values : Put(k, v)
    \/ \E k \in Keys : Get(k)
    \/ \E c \in 1..Len(calls) : GetRetry(c)

SpecRetry == InitMain /\ [][NextRetry]_vars

\* The accessors over a chain that local puts and remote blocks fill.
Next ==
    \/ \E k \in Keys : Put(k, 1)
    \/ \E k \in Keys : GetHistory(k)
    \/ GetAll
    \/ \E b \in RemoteBlocks \cup {Malformed} : OnBlock(b, "p1")

Spec == InitMain /\ [][Next]_vars

\* The accessors over a chain that may hold blocks without a data field.
NextErrors ==
    \/ \E k \in {"x"} : Get(k)
    \/ \E c \in 1..Len(calls) : GetRetry(c)
    \/ \E k \in {"x"} : GetHistory(k)
    \/ GetAll
    \/ \E b \in RemoteBlocks \cup {Malformed} : OnBlock(b, "p1")

SpecErrors == InitMain /\ [][NextErrors]_vars

\* Everything that changes the chain: put and the inbound listeners.
NextAppend ==
    \/ \E k \in {"x"} : Put(k, 1)
    \/ \E b \in RemoteBlocks, name \in Names : OnBlock(b, name)
    \/ \E b \in RemoteBlocks, name \in Names : OnRequestedBlock(b, name, MaxReceived)
    \/ \E chain \in {RemoteChain, Reverse(RemoteChain)} : OnChain(chain, "p1")

SpecAppend == InitMain /\ [][NextAppend]_vars

\* The replication listeners.
NextRouter ==
    \/ \E k \in {"x"} : Put(k, 1)
    \/ \E b \in RemoteBlocks, name \in Names : OnBlock(b, name)
    \/ \E b \in {RemoteBlock(1)}, name \in Names : OnRequestedBlock(b, name, MaxReceived)
    \/ \E chain \in {RemoteChain}, name \in Names : OnChain(chain, name)
    \/ \E k \in Keys, name \in Names : OnRequest(k, name)
    \/ \E id \in {1} \cup Range(RemoteMap), name \in Names : OnRequestBlock(id, name)

SpecRouter == InitMain /\ [][NextRouter]_vars

\* Reconciliation: block maps, missing blocks and their delivery.
NextSync ==
    \/ \E k \in {"x"} : Put(k, 1)
    \/ \E id \in {"p1"} : Connect(id)
    \/ \E data \in SyncData, id \in {"p1"} : OnGeneric(data, id, 1)
    \/ \E b \in RemoteBlocks, name \in Names : OnRequestedBlock(b, name, MaxRemote)
    \/ GetAll

SpecSync == Init /\ [][NextSync]_vars

\* The length peer p announces: "p1" holds 1 block, "p2" 2, "p3" 3.
PeerLength(p) == CASE p = "p1" -> 1 [] p = "p2" -> 2 [] OTHER -> 3

\* The gossip round: connections, length announcements (of a peer's chain, or
\* 0 from a peer whose chain is empty), block-map requests.
NextGossip ==
    \/ \E k \in {"x"} : Put(k, 1)
    \/ \E id \in PeerIds : Connect(id)
    \/ \E id \in PeerIds : \E n \in {0, PeerLength(id)} : OnGeneric([length |-> n], id, MaxReports)
    \/ \E id \in PeerIds : OnGeneric([request |-> "block_map"], id, MaxReports)

SpecGossip == Init /\ [][NextGossip]_vars

\* ------------------------------------------------------------ the network
\* Two ledgers "a" and "b" over the transport: net is the bag of messages in
\* flight, each addressed to one node; linked is the set of nodes whose
\* connect callback has fired.  A broadcast goes to every peer the sender is
\* connected to; a message to one peer goes to that peer.
Other(n) == CHOOSE m \in NetNames : m # n

RECURSIVE Routed(_, _)
Routed(from, out) ==
    IF out = <<>> THEN EmptyBag
    ELSE (IF from \in linked \/ Head(out).to # Broadcast
          THEN SetToBag({[from |-> from, to |-> Other(from), ch |-> Head(out).ch,
                          body |-> Head(out).body]})
          ELSE EmptyBag) (+) Routed(from, Tail(out))

\* The listener of node n for a message on channel ch from `from`.
Dispatch(n, ch, body, from) ==
    CASE ch = "generic" -> Generic(nodes[n], body, from, 1)
      [] ch = "request_block" -> requestBlockListener(nodes[n], body.block_id, from)
      [] ch = "request" -> requestListener(nodes[n], body.key, from)
      [] ch = "requested_block" -> RequestedBlock(nodes[n], body, from)
      [] ch = "chain" -> chainListener(nodes[n], body, from)
      [] OTHER -> blockListener(nodes[n], body, from)

NetPut(n, k) ==
    LET e == put(nodes[n], k, 1, puts + 1, puts + 1)
    IN  /\ puts < MaxNetPuts
        /\ puts' = puts + 1
        /\ nodes' = [nodes EXCEPT ![n] = e.l]
        /\ net' = net (+) Routed(n, e.out)
        /\ UNCHANGED <<impl, ledger, peers, calls, appended, ev, linked, asked>>

\* The transport fires the connect callback of node n for its new peer.
NetConnect(n) ==
    /\ n \notin linked
    /\ linked' = linked \cup {n}
    /\ net' = net (+) SetToBag({[from |-> n, to |-> Other(n), ch |-> "generic",
                                 body |-> connectHandler(nodes[n], Other(n)).out[1].body]})
    /\ UNCHANGED <<impl, ledger, peers, calls, puts, appended, ev, nodes, asked>>

NetDeliver(m) ==
    LET e == Dispatch(m.to, m.ch, m.body, m.from)
    IN  /\ BagIn(m, net)
        /\ nodes' = [nodes EXCEPT ![m.to] = e.l]
        /\ net' = (net (-) SetToBag({m})) (+) Routed(m.to, e.out)
        /\ UNCHANGED <<impl, ledger, peers, calls, puts, appended, ev, linked, asked>>

NextNet ==
    \/ \E n \in NetNames, k \in Keys : NetPut(n, k)
    \/ \E n \in NetNames : NetConnect(n)
    \/ \E m \in BagToSet(net) : NetDeliver(m)

\* Every message in flight is eventually delivered.
SpecNet == Init /\ [][NextNet]_vars /\ WF_vars(\E m \in BagToSet(net) : NetDeliver(m))

\* Node n is asked to reconcile with its peer, once both are connected:
\* requestBlockMap(id) of main.js sends the block-map request (once per node,
\* `asked` holds the nodes that did).  The Ledger of part_000 has no such
\* function.
NetRequestBlockMap(n) ==
    /\ impl = "main"
    /\ linked = NetNames
    /\ n \notin asked
    /\ asked' = asked \cup {n}
    /\ net' = net (+) Routed(n, requestBlockMap(nodes[n], Other(n)))
    /\ UNCHANGED <<impl, ledger, peers, calls, puts, appended, ev, nodes, linked>>

\* The network with reconciliation requested: the block map is served by the
\* peer's generic listener, the missing blocks by its request_block listener.
NextSession ==
    \/ \E n \in NetNames : NetPut(n, "x")
    \/ \E n \in NetNames : NetConnect(n)
    \/ \E n \in NetNames : NetRequestBlockMap(n)
    \/ \E m \in BagToSet(net) : NetDeliver(m)

SpecSession == Init /\ [][NextSession]_vars /\ WF_vars(\E m \in BagToSet(net) : NetDeliver(m))

\* ------------------------------------------------------------------ claims
\* C1: every get call chain that ends with the not-found sentinel has sent
\* exactly 3 key requests, with the backoff delays 500, 1000 and 1500 ms.
C1_BoundedRetry ==
    \A c \in 1..Len(calls) :
        (calls[c].state = "done" /\ calls[c].ret = NotFound)
            => (calls[c].requests = 3 /\ calls[c].delays = <<500, 1000, 1500>>)

\* C2: a get call chain that shares the ledger with a call chain for another
\* key has the backoff delays it would have alone: at most 3, the i-th one
\* i * 500 ms.
C2_PerChainRetryState ==
    \A c, d \in 1..Len(calls) :
        calls[c].key # calls[d].key
            => /\ Len(calls[c].delays) <= 3
               /\ \A i \in 1..Len(calls[c].delays) : calls[c].delays[i] = i * 500

\* C6: a top-level get(k) that directly follows put(k, v) returns {key: k,
\* value: v}, sends nothing, schedules no timer and does not raise tries.
C6_ReadAfterPut ==
    [][(ev.op = "put" /\ ev'.op = "get" /\ ev'.arg.key = ev.arg.key)
         => (/\ ev'.ret = DataRet(ev.arg)
             /\ ev'.out = <<>>
             /\ ev'.timer = 0
             /\ ~ev'.threw
             /\ ledger'.tries <= ledger.tries)]_vars

\* A get(k) has just returned the value of the newest block, put after an
\* older block of the same key with another value.
C6_Witness ==
    /\ ev.op = "get"
    /\ Len(ledger.chain) = 2
    /\ ledger.chain[1].data.key = ev.arg.key
    /\ ledger.chain[2].data.key = ev.arg.key
    /\ ledger.chain[1].data.value # ledger.chain[2].data.value
    /\ ev.ret = DataRet(ledger.chain[2].data)
    /\ Len(calls) = 1

\* C4: a put lengthens the chain by exactly one block, and no step (put or
\* inbound listener) removes a block of the chain or changes it; block ids
\* stay unique.
C4_AppendOnly ==
    [][/\ (ev'.op = "put" => Len(ledger'.chain) = Len(ledger.chain) + 1)
       /\ \A i \in 1..Len(ledger.chain) :
            \E j \in 1..Len(ledger'.chain) : ledger'.chain[j] = ledger.chain[i]
       /\ \A i, j \in 1..Len(ledger'.chain) :
            ledger'.chain[i].block_id = ledger'.chain[j].block_id => i = j]_vars

\* Two puts and two remote blocks are in the chain, and a sort has moved a
\* remote block in front of a block put before it arrived.
C4_Witness ==
    /\ Len(ledger.chain) = 4
    /\ puts = 2
    /\ ledger.chain[1].block_id > 100
    /\ appended[1] < 100

\* The positions of the blocks with key k, and the j-th smallest of them.
KeyIndices(blocks, k) == {i \in 1..Len(blocks) : blocks[i].has_data /\ blocks[i].data.key = k}
Nth(S, j) == CHOOSE i \in S : Cardinality({m \in S : m <= i}) = j

\* C7 as stated: on any chain, get_history(k) returns the data of exactly the
\* blocks with key k, oldest first (chain order), sends no message, schedules
\* no timer and leaves the chain and the retry counter unchanged.
C7_HistoryAnyChain ==
    [][ev'.op = "get_history"
         => LET S == KeyIndices(ledger.chain, ev'.arg.key)
            IN  /\ ev'.ret.kind = "list"
                /\ Len(ev'.ret.val) = Cardinality(S)
                /\ \A j \in 1..Cardinality(S) : ev'.ret.val[j] = ledger.chain[Nth(S, j)].data
                /\ ev'.out = <<>>
                /\ ev'.timer = 0
                /\ ledger'.chain = ledger.chain
                /\ ledger'.tries = ledger.tries]_vars

\* C7 as amended: on a chain whose blocks all carry data, get_history(k) returns
\* the data of exactly the blocks with key k, oldest first (chain order), sends
\* no message, schedules no timer and leaves the ledger (chain, tries) unchanged.
C7_History ==
    [][(ev'.op = "get_history" /\ AllHaveData(ledger.chain))
         => LET S == KeyIndices(ledger.chain, ev'.arg.key)
            IN  /\ ev'.ret.kind = "list"
                /\ Len(ev'.ret.val) = Cardinality(S)
                /\ \A j \in 1..Cardinality(S) : ev'.ret.val[j] = ledger.chain[Nth(S, j)].data
                /\ ev'.out = <<>>
                /\ ev'.timer = 0
                /\ ~ev'.threw
                /\ ledger' = ledger]_vars

\* get_history(k) has returned two different entries of k from a chain that
\* holds a block of another key between them.
C7_Witness ==
    /\ ev.op = "get_history"
    /\ ev.ret.kind = "list"
    /\ Len(ev.ret.val) = 2
    /\ ev.ret.val[1] # ev.ret.val[2]
    /\ Len(ledger.chain) = 3
    /\ ledger.chain[2].data.key # ev.arg.key

\* The scan of get(k) fails: a block without data is newer than every block
\* with key k.
GetScanFails(blocks, k) ==
    \E i \in 1..Len(blocks) :
        /\ ~blocks[i].has_data
        /\ \A j \in (i + 1)..Len(blocks) : blocks[j].has_data /\ blocks[j].data.key # k

AccessorFails(op, blocks, k) ==
    IF op \in {"get", "get_retry"} THEN GetScanFails(blocks, k) ELSE ~AllHaveData(blocks)

\* C10: get, get_history and get_all never let an exception out; when the
\* scan fails on a block without data, one error is appended to errors, the
\* chain is unchanged, nothing is sent and the caller receives undefined.
C10_ErrorsCaught ==
    [][ev'.op \in {"get", "get_retry", "get_history", "get_all"}
         => /\ ~ev'.threw
            /\ ev'.ret.kind \in {"data", "list", "unable to find.", "undefined"}
            /\ AccessorFails(ev'.op, ledger.chain, IF ev'.op = "get_all" THEN "" ELSE ev'.arg.key)
                 => /\ ledger'.errors = Append(ledger.errors, "TypeError")
                    /\ ledger'.chain = ledger.chain
                    /\ ev'.ret = Undefined
                    /\ ev'.out = <<>>
                    /\ ev'.timer = 0]_vars

\* get_history has just failed on a chain holding a block without data, and
\* the error is in the log.
C10_Witness ==
    /\ ev.op = "get_history"
    /\ ~AllHaveData(ledger.chain)
    /\ ev.ret = Undefined
    /\ Len(ledger.errors) = 1
    /\ Len(ledger.chain) = 2

Max(S) == CHOOSE i \in S : \A m \in S : m <= i

\* The position in the chain of the block of key k that was appended last.
LastAppended(l, k) ==
    LET pos(id) == CHOOSE i \in 1..Len(l.chain) : l.chain[i].block_id = id
        A == {n \in 1..Len(appended) : pos(appended[n]) \in KeyIndices(l.chain, k)}
    IN  pos(appended[Max(A)])

\* get(k) returns the data of the block at position i(k), and get_all() holds
\* exactly one entry of key k, that same data, for every key k of the chain.
LatestIs(l, i(_)) ==
    \A k \in Keys :
        KeyIndices(l.chain, k) # {}
            => /\ get(l, k).ret = DataRet(l.chain[i(k)].data)
               /\ get_all(l).ret.kind = "list"
               /\ LET all == get_all(l).ret.val
                  IN  /\ Cardinality({j \in 1..Len(all) : all[j].key = k}) = 1
                      /\ \E j \in 1..Len(all) : all[j] = l.chain[i(k)].data

\* C5 as stated: for every key of the chain, get and get_all give the data of
\* the most recently appended block of that key.
C5_MostRecentlyAppended ==
    AllHaveData(ledger.chain) => LatestIs(ledger, LAMBDA k : LastAppended(ledger, k))

\* C5 as amended: for every key of the chain, get and get_all give the data of
\* the block of that key that is last in the chain's current order.
C5_LastInChainOrder ==
    AllHaveData(ledger.chain)
        => LatestIs(ledger, LAMBDA k : Max(KeyIndices(ledger.chain, k)))

\* get_all() has run on a chain that holds two blocks of key "x" with
\* different values, the one appended last not being the last in chain order.
C5_Witness ==
    /\ ev.op = "get_all"
    /\ ev.ret.kind = "list"
    /\ Cardinality(KeyIndices(ledger.chain, "x")) = 2
    /\ LastAppended(ledger, "x") # Max(KeyIndices(ledger.chain, "x"))
    /\ \E j \in 1..Len(ev.ret.val) :
         ev.ret.val[j] = ledger.chain[Max(KeyIndices(ledger.chain, "x"))].data

IsCanonical(blocks) ==
    \A i, j \in 1..Len(blocks) : i < j => Before(blocks[i], blocks[j])

\* A requested_block delivery completes the reconciliation session: in
\* main.js the tracking of a session with missing blocks is cleared; in
\* part_000 the chain reaches the announced target length.
SessionCompletes ==
    /\ ev'.op = "requested_block"
    /\ IF impl = "main"
       THEN ledger.missing_blocks # <<>> /\ ledger'.missing_blocks = <<>>
       ELSE /\ ledger.target_length # -1
            /\ Len(ledger.chain) < ledger.target_length
            /\ Len(ledger'.chain) >= ledger.target_length

\* C8: when a delivery completes a session, the chain is in canonical order
\* and holds the blocks it held plus the block delivered by the peer, whatever
\* the order of arrival was.
C8_SortConvergence ==
    [][SessionCompletes
         => /\ IsCanonical(ledger'.chain)
            /\ Range(ledger'.chain) =
                 Range(ledger.chain) \cup (IF ev'.arg.name # Self THEN {ev'.arg.block} ELSE {})]_vars

\* A session of two missing blocks has just completed; they arrived newest
\* first, after a local put, and the chain is now oldest first.
C8_Witness ==
    /\ ev.op = "requested_block"
    /\ ev.arg.name # Self
    /\ ledger.missing_blocks = <<>>
    /\ ledger.received_blocks = <<>>
    /\ impl = "main"
    /\ appended = <<1, 102, 101>>
    /\ ChainMapBlocks(ledger.chain) = <<101, 1, 102>>

\* The peers a step sent a block-map request to.
BlockMapRequests(out) ==
    {out[i].to : i \in {j \in 1..Len(out) : HasField(out[j].body, "request")}}

\* C3: a generic message leads to block-map requests only once the report
\* set holds at least as many reports as there are connected peers, and then
\* the requests go to exactly the peers whose reported length is greater than
\* the local chain length.
C3_QuorumGating ==
    [][ev'.op = "generic"
         => BlockMapRequests(ev'.out) =
              IF Len(ledger'.chain_lengths) >= Cardinality(peers)
              THEN {r.id : r \in {q \in Range(ledger'.chain_lengths) :
                                     q.length > Len(ledger.chain)}}
              ELSE {}]_vars

\* C9: once the nodes are connected and no message is in flight, every node
\* holds the same set of block ids (with no further put, nothing more happens,
\* so this is the state the nodes stay in).
C9_EventualConsistency ==
    (linked = NetNames /\ net = EmptyBag) => \A n, m \in NetNames : Ids(nodes[n].chain) = Ids(nodes[m].chain)

\* C11: a requested_block delivery clears the tracking of a session (main.js,
\* a non-empty missing set emptied) only when every block id of the missing set
\* is in the local chain after the delivery.
C11_SessionCompletion ==
    [][(ev'.op = "requested_block" /\ impl = "main"
          /\ ledger.missing_blocks # <<>> /\ ledger'.missing_blocks = <<>>)
         => Range(ledger.missing_blocks) \subseteq Ids(ledger'.chain)]_vars

\* C12: on a network that loses nothing and delivers fairly, every session a
\* node opens (a non-empty missing set, whose blocks the peer holds) is
\* eventually cleared.
C12_SessionLiveness ==
    \A n \in NetNames : (nodes[n].missing_blocks # <<>>) ~> (nodes[n].missing_blocks = <<>>)

\* C13: the report set is cleared once a quorum of reports has been collected:
\* after a generic message has been handled, the set is either empty or holds
\* fewer reports than there are connected peers.
C13_ReportsCleared ==
    [][ev'.op = "generic"
         => (ledger'.chain_lengths = <<>> \/ Len(ledger'.chain_lengths) < Cardinality(peers))]_vars

\* C14: when a generic message has been handled and the report set meets the
\* condition under which the evaluation is due (at least as many reports as
\* connected peers), every connected peer has a report in the set.
C14_ReportFromEveryPeer ==
    [][(ev'.op = "generic" /\ Len(ledger'.chain_lengths) >= Cardinality(peers))
         => peers \subseteq {r.id : r \in Range(ledger'.chain_lengths)}]_vars

\* C15: in main.js every length announcement, of any length, adds exactly one
\* report {id, length} for the announcing peer to the report set.
C15_EveryAnnouncementRecorded ==
    [][(ev'.op = "generic" /\ impl = "main" /\ HasField(ev'.arg.data, "length"))
         => ledger'.chain_lengths =
              Append(ledger.chain_lengths, [id |-> ev'.arg.id, length |-> ev'.arg.data.length])]_vars

\* The number of block-map requests among the messages a step sent.
BlockMapRequestCount(out) == Cardinality({j \in 1..Len(out) : HasField(out[j].body, "request")})

\* C16: in main.js, when a generic message has been handled and every
\* connected peer has a report in the set, the step sends exactly one block-map
\* request, to a peer with the greatest reported length, if that length is
\* greater than the local chain length, and no block-map request otherwise.
C16_LongestOnly ==
    [][(/\ ev'.op = "generic"
        /\ impl = "main"
        /\ peers \subseteq {r.id : r \in Range(ledger'.chain_lengths)})
         => LET R == Range(ledger'.chain_lengths)
                best == {r \in R : \A q \in R : q.length <= r.length}
            IN  IF \E r \in R : r.length > Len(ledger.chain)
                THEN /\ BlockMapRequestCount(ev'.out) = 1
                     /\ \E r \in best : BlockMapRequests(ev'.out) = {r.id}
                ELSE BlockMapRequestCount(ev'.out) = 0]_vars

\* The positions in out of the block-by-id requests for block id.
BlockRequests(out, id) ==
    {j \in 1..Len(out) : out[j].ch = "request_block" /\ out[j].body.block_id = id}

\* On a block map: one block-by-id request for each id of the map that the
\* local chain lacks, none for an id it holds, every request going to `to(id)`
\* for the sender id of the map.
RequestsMissing(to(_)) ==
    (ev'.op = "generic" /\ HasField(ev'.arg.data, "block_map"))
        => /\ \A id \in Range(ev'.arg.data.block_map) :
                Cardinality(BlockRequests(ev'.out, id)) = IF id \in Ids(ledger.chain) THEN 0 ELSE 1
           /\ \A j \in 1..Len(ev'.out) :
                /\ ev'.out[j].ch = "request_block"
                /\ ev'.out[j].body.block_id \in Range(ev'.arg.data.block_map)
                /\ ev'.out[j].to = to(ev'.arg.id)
           /\ ledger'.chain = ledger.chain

\* C17 as stated: the block-by-id requests for the missing ids are addressed
\* to the peer that sent the block map.
C17_RequestsToSender == [][RequestsMissing(LAMBDA id : id)]_vars

\* C17 as amended: the block-by-id requests for the missing ids, one each and
\* none for another id, are sent on the request_block broadcast channel.
C17_RequestsBroadcast == [][RequestsMissing(LAMBDA id : Broadcast)]_vars

\* The block map [101, 102] has arrived at a ledger that holds block 101 and
\* a local block: the one request sent is for block 102.
C17_Witness ==
    /\ ev.op = "generic"
    /\ HasField(ev.arg.data, "block_map")
    /\ 101 \in Ids(ledger.chain)
    /\ 1 \in Ids(ledger.chain)
    /\ Len(ev.out) = 1
    /\ ev.out[1] = Msg("request_block", Broadcast, [block_id |-> 102])

\* C18: a message on the block, chain, request_block or request channel whose
\* sender name is the node's own name leaves the ledger as it was, sends
\* nothing and raises no exception.
C18_OwnBroadcastsIgnored ==
    [][(ev'.op \in {"block", "chain", "request_block", "request"} /\ ev'.arg.name = Self)
         => /\ ledger' = ledger
            /\ ev'.out = <<>>
            /\ ~ev'.threw]_vars

\* A key request under the node's own name has arrived for a key the chain
\* holds, and nothing was sent.
C18_Witness ==
    /\ ev.op = "request"
    /\ ev.arg.name = Self
    /\ KeyIndices(ledger.chain, ev.arg.key) # {}
    /\ ev.out = <<>>

\* A request of another peer is served: a block-by-id request with the block
\* of that id, a key request with the block at position i(key), as the one
\* message sent; nothing is sent when no block matches; the chain is unchanged.
Served(i(_)) ==
    /\ (ev'.op = "request_block" /\ ev'.arg.name # Self)
         => LET S == {j \in 1..Len(ledger.chain) : ledger.chain[j].block_id = ev'.arg.block_id}
            IN  /\ ev'.out = IF S = {} THEN <<>> ELSE <<Msg("block", Broadcast, ledger.chain[Max(S)])>>
                /\ ledger'.chain = ledger.chain
    /\ (ev'.op = "request" /\ ev'.arg.name # Self /\ AllHaveData(ledger.chain))
         => /\ ev'.out = IF KeyIndices(ledger.chain, ev'.arg.key) = {} THEN <<>>
                         ELSE <<Msg("block", Broadcast, ledger.chain[i(ev'.arg.key)])>>
            /\ ledger'.chain = ledger.chain

\* C19 as stated: a key request is served with the most recently appended
\* block of the key.
C19_ServesMostRecentlyAppended == [][Served(LAMBDA k : LastAppended(ledger, k))]_vars

\* C19 as amended: a key request is served with the block of the key that is
\* last in the chain's current order (on a chain whose blocks all carry data).
C19_ServesLastInChainOrder == [][Served(LAMBDA k : Max(KeyIndices(ledger.chain, k)))]_vars

\* A key request of a peer has been served from a chain in which the block of
\* the key appended last is not the last in chain order.
C19_Witness ==
    /\ ev.op = "request"
    /\ ev.arg.name # Self
    /\ AllHaveData(ledger.chain)
    /\ Cardinality(KeyIndices(ledger.chain, ev.arg.key)) = 2
    /\ LastAppended(ledger, ev.arg.key) # Max(KeyIndices(ledger.chain, ev.arg.key))
    /\ ev.out = <<Msg("block", Broadcast, ledger.chain[Max(KeyIndices(ledger.chain, ev.arg.key))])>>

\* C20: whenever no get call chain is in flight (no retry timer is pending),
\* the retry counter tries is 0.
C20_TriesZeroAtRest ==
    (\A c \in 1..Len(calls) : calls[c].state = "done") => ledger.tries = 0

====
